---- MODULE Spec2Model ----
(***************************************************************************)
(* A model of the KL27 assembler, compiler/compiler.py.                    *)
(*                                                                         *)
(* Text is modelled at character level: a str is a sequence of one-        *)
(* character strings, a bytes object is a sequence of integers 0..255.     *)
(* The driver kl27_compile is a state machine with one action per kind of  *)
(* source line, one for the end of the scan, one for fix_jumps and one for *)
(* the emission of the module.                                             *)
(***************************************************************************)
EXTENDS Integers, Sequences, FiniteSets, TLC

VARIABLES
    args,               \* the argparse namespace: entry_point, no_automatic_main
    lines,              \* data.splitlines(), spliced by process_include
    lineno,             \* number of lines consumed so far
    current_pointer,    \* current offset
    label_table,        \* OrderedDict name -> (id, addr), as a sequence in key order
    code,               \* machine code memory: segments (bytes or LabelPlaceholder)
    includes,           \* current includes table
    current_label,      \* current label, or None
    pc,                 \* position in kl27_compile: "scan", "fixup", "emit", "exit"
    status,             \* the process exit status
    exc,                \* the uncaught exception that ended the run, if any
    stdout,             \* the warnings, errors and include notices printed so far
    entry,              \* entry: the entry point address read at line 307
    final_label_table,  \* the serialized label table
    resolved_labels,    \* names resolved by fix_jumps
    loop_code,          \* fix_jumps' copy of code taken before resolution
    outfile,            \* the bytes written to args.outfile, or NoFile
    enc                 \* one encoder call: mnemonic, operand text, result

vars == <<args, lines, lineno, current_pointer, label_table, code, includes,
          current_label, pc, status, exc, stdout, entry, final_label_table,
          resolved_labels, loop_code, outfile, enc>>

-----------------------------------------------------------------------------
(* Bounds of the model.                                                    *)

\* longest main source file, in lines
MaxLines == 3
\* longest operand text enumerated for the encoders, in characters
MaxOperandLen == 3

-----------------------------------------------------------------------------
(* str operations.                                                         *)

StartsWith(s, p) == Len(s) >= Len(p) /\ SubSeq(s, 1, Len(p)) = p

EndsWith(s, p) == Len(s) >= Len(p) /\ SubSeq(s, Len(s) - Len(p) + 1, Len(s)) = p

RECURSIVE LStrip(_)
LStrip(s) == IF s # <<>> /\ Head(s) = " " THEN LStrip(Tail(s)) ELSE s

RECURSIVE RStrip(_)
RStrip(s) ==
    IF s # <<>> /\ s[Len(s)] = " " THEN RStrip(SubSeq(s, 1, Len(s) - 1)) ELSE s

\* line.lstrip().rstrip()
Strip(s) == RStrip(LStrip(s))

\* s.split(" "): every single space separates, empty fields are kept
RECURSIVE SplitSp(_)
SplitSp(s) ==
    IF \A i \in 1..Len(s) : s[i] # " "
    THEN <<s>>
    ELSE LET i == CHOOSE j \in 1..Len(s) :
                      s[j] = " " /\ \A k \in 1..(j - 1) : s[k] # " "
         IN  <<SubSeq(s, 1, i - 1)>> \o SplitSp(SubSeq(s, i + 1, Len(s)))

\* " ".join(words)
RECURSIVE JoinSp(_)
JoinSp(words) ==
    IF words = <<>> THEN <<>>
    ELSE IF Len(words) = 1 THEN words[1]
    ELSE words[1] \o <<" ">> \o JoinSp(Tail(words))

NonEmpty(w) == w # <<>>

\* shlex.split(line) on text without quotes or escapes: whitespace-separated words
ShlexSplit(s) == SelectSeq(SplitSp(s), NonEmpty)

UpperChar(c) ==
    CASE c = "r" -> "R"
      [] c = "p" -> "P"
      [] c = "c" -> "C"
      [] c = "m" -> "M"
      [] c = "a" -> "A"
      [] c = "v" -> "V"
      [] c = "x" -> "X"
      [] c = "f" -> "F"
      [] c = "b" -> "B"
      [] c = "o" -> "O"
      [] c = "l" -> "L"
      [] OTHER -> c

\* str.upper()
Upper(s) == [i \in 1..Len(s) |-> UpperChar(s[i])]

-----------------------------------------------------------------------------
(* int(text, 0) and int.to_bytes.                                          *)

DigitChars ==
    {"0", "1", "2", "3", "4", "5", "6", "7", "8", "9",
     "a", "b", "c", "d", "e", "f", "A", "B", "C", "D", "E", "F"}

DigitVal(c) ==
    CASE c = "0" -> 0 [] c = "1" -> 1 [] c = "2" -> 2 [] c = "3" -> 3
      [] c = "4" -> 4 [] c = "5" -> 5 [] c = "6" -> 6 [] c = "7" -> 7
      [] c = "8" -> 8 [] c = "9" -> 9
      [] c \in {"a", "A"} -> 10 [] c \in {"b", "B"} -> 11
      [] c \in {"c", "C"} -> 12 [] c \in {"d", "D"} -> 13
      [] c \in {"e", "E"} -> 14 [] c \in {"f", "F"} -> 15
      [] OTHER -> 99

\* the digits d of a literal are valid in the base
ValidDigits(d, base) ==
    /\ d # <<>>
    /\ \A i \in 1..Len(d) : d[i] \in DigitChars /\ DigitVal(d[i]) < base

RECURSIVE DigitsValue(_, _)
DigitsValue(d, base) ==
    IF d = <<>> THEN 0
    ELSE DigitsValue(SubSeq(d, 1, Len(d) - 1), base) * base + DigitVal(d[Len(d)])

\* an unsigned literal under base 0: 0x.., 0o.., 0b.., or decimal without a
\* leading zero (a run of zeros is the number zero)
ParseUnsigned(t) ==
    LET pre  == IF Len(t) >= 2 THEN <<t[1], UpperChar(t[2])>> ELSE <<>>
        rest == SubSeq(t, 3, Len(t))
        base == CASE pre = <<"0", "X">> -> 16
                  [] pre = <<"0", "O">> -> 8
                  [] pre = <<"0", "B">> -> 2
                  [] OTHER -> 10
    IN  IF base # 10
        THEN IF ValidDigits(rest, base)
             THEN [ok |-> TRUE, val |-> DigitsValue(rest, base)]
             ELSE [ok |-> FALSE, val |-> 0]
        ELSE IF /\ ValidDigits(t, 10)
                /\ (t[1] = "0" => \A i \in 1..Len(t) : t[i] = "0")
             THEN [ok |-> TRUE, val |-> DigitsValue(t, 10)]
             ELSE [ok |-> FALSE, val |-> 0]

\* int(text, 0): surrounding whitespace is ignored, one sign is allowed;
\* ok = FALSE stands for ValueError
PyInt(text) ==
    LET t    == Strip(text)
        neg  == t # <<>> /\ t[1] = "-"
        sgn  == t # <<>> /\ t[1] \in {"-", "+"}
        body == IF sgn THEN Tail(t) ELSE t
        u    == ParseUnsigned(body)
    IN  IF u.ok THEN [ok |-> TRUE, val |-> IF neg THEN 0 - u.val ELSE u.val]
        ELSE u

RECURSIVE Pow256(_)
Pow256(n) == IF n = 0 THEN 1 ELSE 256 * Pow256(n - 1)

\* v.to_bytes(n, byteorder="big") for 0 <= v < 256^n
RECURSIVE BigEndian(_, _)
BigEndian(v, n) ==
    IF n = 0 THEN <<>> ELSE BigEndian(v \div 256, n - 1) \o <<v % 256>>

\* int.to_bytes raises OverflowError on a negative or too large value
FitsBytes(v, n) == v >= 0 /\ v < Pow256(n)

-----------------------------------------------------------------------------
(* Segments: what the encoders return and what code holds.                 *)

\* a concrete byte string
Bytes(b) == [ph |-> FALSE, bytes |-> b, label_name |-> <<>>]

\* LabelPlaceholder(label_name)
LabelPlaceholder(name) == [ph |-> TRUE, bytes |-> <<>>, label_name |-> name]

\* LabelPlaceholder.__len__: used for moving the pointer ahead
PlaceholderLen == 2

\* variant: a placeholder has no length
SegLen_BytesOnly(x) == Len(x.bytes)

\* len(x) of a segment: bytes by length, LabelPlaceholder.__len__ is 2
SegLen(x) == IF x.ph THEN PlaceholderLen ELSE Len(x.bytes)

\* sum(len(x) for x in instructions)
RECURSIVE SumLen(_)
SumLen(segs) == IF segs = <<>> THEN 0 ELSE SegLen(Head(segs)) + SumLen(Tail(segs))

\* b"".join(segs) of byte strings
RECURSIVE JoinBytes(_)
JoinBytes(segs) ==
    IF segs = <<>> THEN <<>> ELSE Head(segs).bytes \o JoinBytes(Tail(segs))

-----------------------------------------------------------------------------
(* The OrderedDict label_table: a sequence of [name, id, addr] in key      *)
(* order.                                                                  *)

Keys(table) == {table[i].name : i \in 1..Len(table)}

\* table[name]
Lookup(table, name) == table[CHOOSE i \in 1..Len(table) : table[i].name = name]

\* table[name] = (id, addr): a new key goes last, an existing key keeps its place
SetItem(table, name, id, addr) ==
    IF name \in Keys(table)
    THEN [i \in 1..Len(table) |->
            IF table[i].name = name
            THEN [name |-> name, id |-> id, addr |-> addr]
            ELSE table[i]]
    ELSE Append(table, [name |-> name, id |-> id, addr |-> addr])

-----------------------------------------------------------------------------
(* The register map and the encoders.                                      *)

RegNames ==
    {<<"M", "A", "R">>, <<"M", "V", "R">>, <<"P", "C">>,
     <<"R", "0">>, <<"R", "1">>, <<"R", "2">>, <<"R", "3">>,
     <<"R", "4">>, <<"R", "5">>, <<"R", "6">>, <<"R", "7">>}

\* R_MAP[reg] for reg in R_MAP
R_MAP(reg) ==
    CASE reg = <<"M", "A", "R">> -> 8
      [] reg = <<"M", "V", "R">> -> 9
      [] reg = <<"P", "C">> -> 10
      [] OTHER -> DigitVal(reg[2])

\* an encoder returned a list of segments
Returned(segs) == [kind |-> "list", segs |-> segs, exc |-> ""]

\* an encoder fell off its end: the call evaluates to None
ReturnedNone == [kind |-> "None", segs |-> <<>>, exc |-> ""]

\* an encoder raised
Raised(e) == [kind |-> "raise", segs |-> <<>>, exc |-> e]

\* [opcode, val.to_bytes(2, byteorder="big")]
WithOperand(opcode, val) ==
    IF FitsBytes(val, 2)
    THEN Returned(<<Bytes(opcode), Bytes(BigEndian(val, 2))>>)
    ELSE Raised("OverflowError")

\* variant: nop is encoded without its operand field
compile_nop_Short(line) == Returned(<<Bytes(<<0, 0>>)>>)

compile_nop(line) == Returned(<<Bytes(<<0, 0, 0, 0>>)>>)

compile_hlt(line) == Returned(<<Bytes(<<0, 1, 0, 0>>)>>)

compile_sl(line) ==
    IF PyInt(line).ok THEN WithOperand(<<0, 2>>, PyInt(line).val)
    ELSE Raised("ValueError")

\* the count popped when the operand is omitted
SpopDefault == 1

\* variant: an omitted operand pops nothing
compile_spop_ZeroDefault(line) ==
    IF line # <<>>
    THEN IF PyInt(line).ok THEN WithOperand(<<0, 3>>, PyInt(line).val)
         ELSE Raised("ValueError")
    ELSE WithOperand(<<0, 3>>, 0)

compile_spop(line) ==
    IF line # <<>>
    THEN IF PyInt(line).ok THEN WithOperand(<<0, 3>>, PyInt(line).val)
         ELSE Raised("ValueError")
    ELSE WithOperand(<<0, 3>>, SpopDefault)

compile_llbl(line) == Returned(<<Bytes(<<0, 4>>), LabelPlaceholder(line)>>)

compile_rgw(line) ==
    IF Upper(line) \in RegNames THEN WithOperand(<<0, 16>>, R_MAP(Upper(line)))
    ELSE Raised("KeyError")

compile_rgr(line) ==
    IF Upper(line) \in RegNames THEN WithOperand(<<0, 17>>, R_MAP(Upper(line)))
    ELSE Raised("KeyError")

\* builds the list [llbl label, jmpa] and returns nothing
compile_jmpl(line) == ReturnedNone

\* variant: the literal of the add unit is decimal 10
compile_jmpr_Add10(line) ==
    Returned(<<Bytes(<<0, 17>>), Bytes(BigEndian(R_MAP(<<"P", "C">>), 2)),
               Bytes(<<0, 48>>), Bytes(<<0, 10>>),
               Bytes(<<0, 16>>), Bytes(BigEndian(R_MAP(<<"R", "7">>), 2)),
               Bytes(<<0, 4>>), LabelPlaceholder(line),
               Bytes(<<0, 35>>), Bytes(<<0, 0>>)>>)

compile_jmpr(line) ==
    Returned(<<Bytes(<<0, 17>>), Bytes(BigEndian(R_MAP(<<"P", "C">>), 2)),
               Bytes(<<0, 48>>), Bytes(<<0, 16>>),
               Bytes(<<0, 16>>), Bytes(BigEndian(R_MAP(<<"R", "7">>), 2)),
               Bytes(<<0, 4>>), LabelPlaceholder(line),
               Bytes(<<0, 35>>), Bytes(<<0, 0>>)>>)

compile_ret(line) ==
    Returned(<<Bytes(<<0, 17>>), Bytes(BigEndian(R_MAP(<<"R", "7">>), 2)),
               Bytes(<<0, 35>>), Bytes(<<0, 0>>)>>)

compile_jmpa(line) == Returned(<<Bytes(<<0, 35, 0, 0>>)>>)

compile_add(line) ==
    IF line # <<>>
    THEN IF ~PyInt(line).ok THEN Raised("ValueError")
         ELSE IF ~FitsBytes(PyInt(line).val, 2) THEN Raised("OverflowError")
         ELSE Returned(<<Bytes(<<0, 48>>), Bytes(BigEndian(PyInt(line).val, 2))>>)
    ELSE Returned(<<Bytes(<<0, 48>>), Bytes(<<0, 0>>)>>)

\* the mnemonics m with a primitive encoder compile_m
Primitives ==
    {<<"n", "o", "p">>, <<"h", "l", "t">>, <<"s", "l">>, <<"s", "p", "o", "p">>,
     <<"l", "l", "b", "l">>, <<"r", "g", "w">>, <<"r", "g", "r">>,
     <<"j", "m", "p", "a">>, <<"a", "d", "d">>}

\* the mnemonics m of the pseudo-instructions
Pseudos == {<<"j", "m", "p", "l">>, <<"j", "m", "p", "r">>, <<"r", "e", "t">>}

\* f"compile_{instruction}" in globals()
HasEncoder(instruction) == instruction \in Primitives \cup Pseudos

\* glob[func](operand text)
Encode(instruction, line) ==
    CASE instruction = <<"n", "o", "p">> -> compile_nop(line)
      [] instruction = <<"h", "l", "t">> -> compile_hlt(line)
      [] instruction = <<"s", "l">> -> compile_sl(line)
      [] instruction = <<"s", "p", "o", "p">> -> compile_spop(line)
      [] instruction = <<"l", "l", "b", "l">> -> compile_llbl(line)
      [] instruction = <<"r", "g", "w">> -> compile_rgw(line)
      [] instruction = <<"r", "g", "r">> -> compile_rgr(line)
      [] instruction = <<"j", "m", "p", "l">> -> compile_jmpl(line)
      [] instruction = <<"j", "m", "p", "r">> -> compile_jmpr(line)
      [] instruction = <<"r", "e", "t">> -> compile_ret(line)
      [] instruction = <<"j", "m", "p", "a">> -> compile_jmpa(line)
      [] instruction = <<"a", "d", "d">> -> compile_add(line)

-----------------------------------------------------------------------------
(* The inputs: the command line, the main source file, the files it can    *)
(* include.                                                                *)

\* current_label = None
None == <<"None">>

main == <<"m", "a", "i", "n">>

LabelL == <<"L">>

\* the source lines a main file is made of
SourceLines ==
    {<<"/", "/", " ", "c">>,
     <<"#", "i", "n", "c", "l", "u", "d", "e", " ", "a">>,
     <<"#", "i", "n", "c", "l", "u", "d", "e", " ", "b">>,
     <<"#", "I", "D", " ", "a">>,
     <<"L", ":">>,
     <<"m", "a", "i", "n", ":">>,
     <<" ", "n", "o", "p">>,
     <<"l", "l", "b", "l", " ", "L">>,
     <<"j", "m", "p", "l", " ", "L">>,
     <<"s", "l", " ", "-", "1">>,
     <<"#", "i", "n", "c", "l", "u", "d", "e", " ", "c">>,
     <<"m", "u", "l">>}

\* the paths open() finds; there is no file c
Paths == {<<"a">>, <<"b">>}

\* the lines of the file at a path: a carries an include guard, includes
\* itself and declares M; b carries no guard, declares L twice and refers to M
FileLines(path) ==
    CASE path = <<"a">> ->
            << <<"#", "I", "D", " ", "a">>,
               <<>>,
               <<"#", "i", "n", "c", "l", "u", "d", "e", " ", "a">>,
               <<"M", ":">>,
               <<"j", "m", "p", "r", " ", "L">>,
               <<"r", "e", "t">> >>
      [] path = <<"b">> ->
            << <<"L", ":">>,
               <<"n", "o", "p">>,
               <<"L", ":">>,
               <<"h", "l", "t">>,
               <<"l", "l", "b", "l", " ", "M">> >>

\* the main files: every sequence of at most MaxLines source lines
RECURSIVE Programs(_)
Programs(n) ==
    IF n = 0 THEN {<<>>}
    ELSE LET shorter == Programs(n - 1)
         IN  shorter \cup {Append(p, l) : p \in shorter, l \in SourceLines}

\* parser.parse_args()
ArgSets == [entry_point : {main, LabelL}, no_automatic_main : BOOLEAN]

NoFile == [exists |-> FALSE, data |-> <<>>]

\* no encoder call in progress
EncIdle == [instruction |-> <<>>, line |-> <<>>, called |-> FALSE,
            result |-> ReturnedNone]

Init ==
    /\ args \in ArgSets
    /\ lines \in Programs(MaxLines)
    /\ lineno = 0
    /\ current_pointer = 0
    /\ label_table = <<>>
    /\ code = <<>>
    /\ includes = <<>>
    /\ current_label = None
    /\ pc = "scan"
    /\ status = 0
    /\ exc = ""
    /\ stdout = <<>>
    /\ entry = 0
    /\ final_label_table = <<>>
    /\ resolved_labels = {}
    /\ loop_code = <<>>
    /\ outfile = NoFile
    /\ enc = EncIdle

-----------------------------------------------------------------------------
(* The scan: one action per kind of line.                                  *)

\* the line the loop loads, stripped
Line == Strip(lines[lineno + 1])

AtLine == pc = "scan" /\ lineno < Len(lines)

IsBlank(line) == line = <<>>

IsComment(line) == StartsWith(line, <<"/", "/">>)

IsDirective(line) == StartsWith(line, <<"#">>)

IsLabel(line) == EndsWith(line, <<":">>)

IsInstruction(line) ==
    ~IsBlank(line) /\ ~IsComment(line) /\ ~IsDirective(line) /\ ~IsLabel(line)

\* line.split(" ")[0][1:]
Processor(line) == Tail(SplitSp(line)[1])

\* locals().get(f"process_{processor}") finds process_include only
HasProcessor(processor) == processor = <<"i", "n", "c", "l", "u", "d", "e">>

Say(kind, what) == Append(stdout, [kind |-> kind, what |-> what])

\* print an error and return 1
Fail(out, kind, what) ==
    /\ pc' = "exit"
    /\ status' = 1
    /\ stdout' = Append(out, [kind |-> kind, what |-> what])
    /\ exc' = exc

\* an uncaught exception: traceback, exit status 1
Crash(out, e) ==
    /\ pc' = "exit"
    /\ status' = 1
    /\ exc' = e
    /\ stdout' = out

Running == pc' = pc /\ status' = status /\ exc' = exc

PostScanUnchanged ==
    UNCHANGED <<args, entry, final_label_table, resolved_labels, loop_code,
                outfile, enc>>

BlankLine ==
    /\ AtLine /\ IsBlank(Line)
    /\ lineno' = lineno + 1
    /\ Running
    /\ UNCHANGED <<lines, current_pointer, label_table, code, includes,
                   current_label, stdout>>
    /\ PostScanUnchanged

CommentLine ==
    /\ AtLine /\ IsComment(Line)
    /\ lineno' = lineno + 1
    /\ Running
    /\ UNCHANGED <<lines, current_pointer, label_table, code, includes,
                   current_label, stdout>>
    /\ PostScanUnchanged

\* variant: an unknown directive is reported and the scan goes on
UnknownStatement_Continue ==
    /\ AtLine /\ ~IsComment(Line) /\ IsDirective(Line)
    /\ ~HasProcessor(Processor(Line))
    /\ lineno' = lineno + 1
    /\ Running
    /\ stdout' = Say("error: unknown statement", Processor(Line))
    /\ UNCHANGED <<lines, current_pointer, label_table, code, includes,
                   current_label>>
    /\ PostScanUnchanged

UnknownStatement ==
    /\ AtLine /\ ~IsComment(Line) /\ IsDirective(Line)
    /\ ~HasProcessor(Processor(Line))
    /\ lineno' = lineno + 1
    /\ Fail(stdout, "error: unknown statement", Processor(Line))
    /\ UNCHANGED <<lines, current_pointer, label_table, code, includes,
                   current_label>>
    /\ PostScanUnchanged

\* variant: the include guard is recorded but never consulted
process_include_Unguarded(line) ==
    LET words     == ShlexSplit(line)
        second    == words[2]
        file      == FileLines(second)
        firstline == IF file = <<>> THEN <<>> ELSE file[1]
        rest      == IF file = <<>> THEN <<>> ELSE Tail(file)
        guarded   == StartsWith(firstline, <<"#", "I", "D">>)
        id        == JoinSp(Tail(SplitSp(firstline)))
    IN  IF Len(words) < 2
        THEN [exc |-> "IndexError", skip |-> FALSE, guarded |-> FALSE,
              id |-> <<>>, second |-> <<>>, newlines |-> <<>>]
        ELSE IF second \notin Paths
        THEN [exc |-> "FileNotFoundError", skip |-> FALSE, guarded |-> FALSE,
              id |-> <<>>, second |-> second, newlines |-> <<>>]
        ELSE [exc |-> "", skip |-> FALSE, guarded |-> guarded,
              id |-> id, second |-> second, newlines |-> rest]

\* what process_include(line) finds: the exception it raises if any, whether
\* the guard skips the inclusion, and the lines it splices in
process_include(line) ==
    LET words     == ShlexSplit(line)
        second    == words[2]
        file      == FileLines(second)
        firstline == IF file = <<>> THEN <<>> ELSE file[1]
        rest      == IF file = <<>> THEN <<>> ELSE Tail(file)
        guarded   == StartsWith(firstline, <<"#", "I", "D">>)
        id        == JoinSp(Tail(SplitSp(firstline)))
        seen      == \E i \in 1..Len(includes) : includes[i] = id
    IN  IF Len(words) < 2
        THEN [exc |-> "IndexError", skip |-> FALSE, guarded |-> FALSE,
              id |-> <<>>, second |-> <<>>, newlines |-> <<>>]
        ELSE IF second \notin Paths
        THEN [exc |-> "FileNotFoundError", skip |-> FALSE, guarded |-> FALSE,
              id |-> <<>>, second |-> second, newlines |-> <<>>]
        ELSE [exc |-> "", skip |-> guarded /\ seen, guarded |-> guarded,
              id |-> id, second |-> second,
              newlines |-> IF guarded /\ seen THEN <<>> ELSE rest]

\* lines[lineno:lineno] = newlines
Splice(ls, at, newlines) ==
    SubSeq(ls, 1, at) \o newlines \o SubSeq(ls, at + 1, Len(ls))

IncludeLine ==
    /\ AtLine /\ ~IsComment(Line) /\ IsDirective(Line)
    /\ HasProcessor(Processor(Line))
    /\ lineno' = lineno + 1
    /\ \E r \in {process_include(Line)} :
           IF r.exc # ""
           THEN /\ Crash(stdout, r.exc)
                /\ UNCHANGED <<lines, includes>>
           ELSE IF r.skip
           THEN /\ Running
                /\ stdout' = Say("not re-including file", r.second)
                /\ UNCHANGED <<lines, includes>>
           ELSE /\ Running
                /\ includes' = IF r.guarded THEN Append(includes, r.id)
                               ELSE includes
                /\ stdout' = IF r.guarded THEN Say("including file", r.second)
                             ELSE Say("warning: no ID directive", r.second)
                /\ lines' = Splice(lines, lineno + 1, r.newlines)
    /\ UNCHANGED <<current_pointer, label_table, code, current_label>>
    /\ PostScanUnchanged

\* the id a declaration records: len(label_table)
NextId(table) == Len(table)

\* variant: a label takes up a unit of its own
LabelLine_Advance ==
    /\ AtLine /\ ~IsComment(Line) /\ ~IsDirective(Line) /\ IsLabel(Line)
    /\ lineno' = lineno + 1
    /\ LET name == SubSeq(Line, 1, Len(Line) - 1)
       IN  /\ current_label' = name
           /\ stdout' = IF name \in Keys(label_table)
                        THEN Say("warning: redefined label", name)
                        ELSE stdout
           /\ label_table' = SetItem(label_table, name, NextId(label_table),
                                     current_pointer)
    /\ Running
    /\ current_pointer' = current_pointer + 4
    /\ UNCHANGED <<lines, code, includes>>
    /\ PostScanUnchanged

LabelLine ==
    /\ AtLine /\ ~IsComment(Line) /\ ~IsDirective(Line) /\ IsLabel(Line)
    /\ lineno' = lineno + 1
    /\ LET name == SubSeq(Line, 1, Len(Line) - 1)
       IN  /\ current_label' = name
           /\ stdout' = IF name \in Keys(label_table)
                        THEN Say("warning: redefined label", name)
                        ELSE stdout
           /\ label_table' = SetItem(label_table, name, NextId(label_table),
                                     current_pointer)
    /\ Running
    /\ UNCHANGED <<lines, current_pointer, code, includes>>
    /\ PostScanUnchanged

NoLabelError ==
    /\ AtLine /\ IsInstruction(Line)
    /\ current_label = None /\ args.no_automatic_main
    /\ lineno' = lineno + 1
    /\ Fail(stdout, "error: no label specified", <<>>)
    /\ UNCHANGED <<lines, current_pointer, label_table, code, includes,
                   current_label>>
    /\ PostScanUnchanged

\* an instruction line is reached with no current label and automatic main on
AssumesMain == current_label = None /\ ~args.no_automatic_main

\* the label table once main is assumed where it has to be
TableWithMain ==
    IF AssumesMain
    THEN SetItem(label_table, main, NextId(label_table), current_pointer)
    ELSE label_table

\* variant: main is recorded but never made the current label
LabelWithMain_Unset == current_label

LabelWithMain == IF AssumesMain THEN main ELSE current_label

OutWithMain ==
    IF AssumesMain
    THEN Say("warning: no label specified, assuming main", <<>>)
    ELSE stdout

\* line.split(" ")[0]
Instruction(line) == SplitSp(line)[1]

\* " ".join(line.split(" ")[1:])
Operand(line) == JoinSp(Tail(SplitSp(line)))

UnknownInstruction ==
    /\ AtLine /\ IsInstruction(Line)
    /\ ~(current_label = None /\ args.no_automatic_main)
    /\ ~HasEncoder(Instruction(Line))
    /\ lineno' = lineno + 1
    /\ label_table' = TableWithMain
    /\ current_label' = LabelWithMain
    /\ Fail(OutWithMain, "error: unknown instruction", Instruction(Line))
    /\ UNCHANGED <<lines, current_pointer, code, includes>>
    /\ PostScanUnchanged

InstructionLine ==
    /\ AtLine /\ IsInstruction(Line)
    /\ ~(current_label = None /\ args.no_automatic_main)
    /\ HasEncoder(Instruction(Line))
    /\ lineno' = lineno + 1
    /\ label_table' = TableWithMain
    /\ current_label' = LabelWithMain
    /\ \E instructions \in {Encode(Instruction(Line), Operand(Line))} :
           CASE instructions.kind = "raise" ->
                  /\ Crash(OutWithMain, instructions.exc)
                  /\ UNCHANGED <<code, current_pointer>>
             [] instructions.kind = "None" ->
                  \* code.extend(None)
                  /\ Crash(OutWithMain, "TypeError")
                  /\ UNCHANGED <<code, current_pointer>>
             [] instructions.kind = "list" ->
                  /\ Running
                  /\ stdout' = OutWithMain
                  /\ code' = code \o instructions.segs
                  /\ current_pointer' = current_pointer
                                        + SumLen(instructions.segs)
    /\ UNCHANGED <<lines, includes>>
    /\ PostScanUnchanged

-----------------------------------------------------------------------------
(* After the scan: the entry point, the label table, fix_jumps, the file.  *)

ScanUnchanged ==
    UNCHANGED <<args, lines, lineno, current_pointer, includes, current_label,
                enc>>

\* the width of the entry count that opens the label table
CountWidth == 2

\* struct.pack(">hi", id, addr)
PackRecord(id, addr) == BigEndian(id, 2) \o BigEndian(addr, 4)

RECURSIVE PackRecords(_)
PackRecords(table) ==
    IF table = <<>> THEN <<>>
    ELSE PackRecord(Head(table).id, Head(table).addr) \o PackRecords(Tail(table))

\* the record appended after the last label
Terminator == <<255, 255, 255, 255, 255, 255>>

\* variant: the closing record is left out
SerializeTable_NoTerminator(table) ==
    BigEndian(Len(table), CountWidth) \o PackRecords(table)

\* b"".join(final_label_table)
SerializeTable(table) ==
    BigEndian(Len(table), CountWidth) \o PackRecords(table) \o Terminator

\* to_bytes and struct.pack take the count, every id (a signed short) and
\* every address (a signed int)
Packable(table) ==
    /\ FitsBytes(Len(table), CountWidth)
    /\ \A i \in 1..Len(table) :
          table[i].id <= 32767 /\ table[i].addr <= 2147483647

\* label_table[args.entry_point][1]
EntryAddress(table, name) == Lookup(table, name).addr

\* variant: a missing entry point is taken to be address 0
EndOfInput_NoEntryCheck ==
    /\ pc = "scan" /\ lineno >= Len(lines)
    /\ pc' = "fixup"
    /\ entry' = IF args.entry_point \in Keys(label_table)
                THEN EntryAddress(label_table, args.entry_point)
                ELSE 0
    /\ final_label_table' = SerializeTable(label_table)
    /\ UNCHANGED <<status, exc, stdout>>
    /\ UNCHANGED <<label_table, code, resolved_labels, loop_code, outfile>>
    /\ ScanUnchanged

EndOfInput ==
    /\ pc = "scan" /\ lineno >= Len(lines)
    /\ IF args.entry_point \notin Keys(label_table)
       THEN /\ Fail(stdout, "error: could not find entry point label", <<>>)
            /\ UNCHANGED <<entry, final_label_table>>
       ELSE IF ~Packable(label_table)
       THEN /\ Crash(stdout, "struct.error")
            /\ entry' = EntryAddress(label_table, args.entry_point)
            /\ UNCHANGED final_label_table
       ELSE /\ pc' = "fixup"
            /\ entry' = EntryAddress(label_table, args.entry_point)
            /\ final_label_table' = SerializeTable(label_table)
            /\ UNCHANGED <<status, exc, stdout>>
    /\ UNCHANGED <<label_table, code, resolved_labels, loop_code, outfile>>
    /\ ScanUnchanged

\* variant: the placeholder resolves to the label's byte address
resolve_Address(pl, table) == BigEndian(Lookup(table, pl.label_name).addr, 2)

\* variant: the placeholder resolves to a 4-byte id
resolve_Wide(pl, table) == BigEndian(Lookup(table, pl.label_name).id, 4)

\* LabelPlaceholder.resolve(table)
resolve(pl, table) == BigEndian(Lookup(table, pl.label_name).id, 2)

\* the first index of c whose placeholder names no label of the table; past
\* the end of c when there is none
FirstUnresolvable(c, table) ==
    LET bad == {n \in 1..Len(c) : c[n].ph /\ c[n].label_name \notin Keys(table)}
    IN  IF bad = {} THEN Len(c) + 1
        ELSE CHOOSE n \in bad : \A m \in bad : n <= m

\* code after the loop of fix_jumps has handled the indexes before stop
Resolved(c, table, stop) ==
    [n \in 1..Len(c) |->
        IF c[n].ph /\ n < stop THEN Bytes(resolve(c[n], table)) ELSE c[n]]

\* variant: a placeholder that names no label is left in place
FixJumps_SkipMissing ==
    /\ pc = "fixup"
    /\ loop_code' = code
    /\ code' = [n \in 1..Len(code) |->
                  IF code[n].ph /\ code[n].label_name \in Keys(label_table)
                  THEN Bytes(resolve(code[n], label_table))
                  ELSE code[n]]
    /\ resolved_labels' =
          {code[n].label_name :
              n \in {m \in 1..Len(code) :
                        code[m].ph /\ code[m].label_name \in Keys(label_table)}}
    /\ pc' = "emit"
    /\ UNCHANGED <<status, exc, stdout>>
    /\ UNCHANGED <<label_table, entry, final_label_table, outfile>>
    /\ ScanUnchanged

FixJumps ==
    /\ pc = "fixup"
    /\ loop_code' = code
    /\ LET stop == FirstUnresolvable(code, label_table)
       IN  /\ code' = Resolved(code, label_table, stop)
           /\ resolved_labels' =
                 {code[n].label_name : n \in {m \in 1..(stop - 1) : code[m].ph}}
           /\ IF stop <= Len(code)
              THEN Crash(stdout, "KeyError")
              ELSE pc' = "emit" /\ UNCHANGED <<status, exc, stdout>>
    /\ UNCHANGED <<label_table, entry, final_label_table, outfile>>
    /\ ScanUnchanged

\* variant: the entry point is not exempt from the unused-label loop
RECURSIVE UnusedWarnings_WithEntry(_, _, _)
UnusedWarnings_WithEntry(table, entry_point, resolved) ==
    IF table = <<>> THEN <<>>
    ELSE (IF Head(table).name \notin resolved
          THEN <<[kind |-> "warning: unused label", what |-> Head(table).name]>>
          ELSE <<>>)
         \o UnusedWarnings_WithEntry(Tail(table), entry_point, resolved)

\* the labels the unused-label loop reports, in table order
RECURSIVE UnusedWarnings(_, _, _)
UnusedWarnings(table, entry_point, resolved) ==
    IF table = <<>> THEN <<>>
    ELSE (IF Head(table).name # entry_point /\ Head(table).name \notin resolved
          THEN <<[kind |-> "warning: unused label", what |-> Head(table).name]>>
          ELSE <<>>)
         \o UnusedWarnings(Tail(table), entry_point, resolved)

\* variant: the entry point as an offset into the file
HeaderEntry_Absolute == 16 + Len(final_label_table) + entry

\* the value of the header's K_BODY field
HeaderEntry == entry

\* magic, K_VERSION, K_COMPRESS, K_BODY, K_STACKSIZE, K_CHECKSUM
Header ==
    <<75, 76, 50, 55>> \o <<1>> \o <<0>> \o BigEndian(HeaderEntry, 4)
    \o BigEndian(4, 2) \o <<0, 0, 0, 0>>

Emit ==
    /\ pc = "emit"
    /\ stdout' = stdout
                 \o UnusedWarnings(label_table, args.entry_point, resolved_labels)
    /\ outfile' = [exists |-> TRUE,
                   data |-> Header \o final_label_table \o JoinBytes(code)]
    /\ pc' = "exit"
    /\ UNCHANGED <<status, exc, label_table, code, entry, final_label_table,
                   resolved_labels, loop_code>>
    /\ ScanUnchanged

Next ==
    \/ BlankLine
    \/ CommentLine
    \/ UnknownStatement
    \/ IncludeLine
    \/ LabelLine
    \/ NoLabelError
    \/ UnknownInstruction
    \/ InstructionLine
    \/ EndOfInput
    \/ FixJumps
    \/ Emit

Spec == Init /\ [][Next]_vars

-----------------------------------------------------------------------------
(* The encoders alone: one call of one encoder on one operand text.        *)

\* the characters operand texts are drawn from
OperandChars == {"0", "1", "9", "x", "f", "-"}

RECURSIVE Texts(_)
Texts(n) ==
    IF n = 0 THEN {<<>>}
    ELSE LET shorter == Texts(n - 1)
         IN  shorter \cup {Append(t, c) : t \in shorter, c \in OperandChars}

\* register names, label names and literals at the edge of 16 bits
OtherOperands ==
    {<<"R", "7">>, <<"r", "7">>, <<"P", "C">>, <<"p", "c">>, <<"M", "A", "R">>,
     <<"m", "v", "r">>, <<"R", "8">>, <<"L">>, <<" ", "5">>, <<"0", "b", "1", "0">>,
     <<"0", "o", "1", "7">>, <<"6", "5", "5", "3", "5">>,
     <<"6", "5", "5", "3", "6">>, <<"0", "x", "F", "F", "F", "F">>}

EncInit ==
    /\ args = [entry_point |-> main, no_automatic_main |-> FALSE]
    /\ lines = <<>>
    /\ lineno = 0
    /\ current_pointer = 0
    /\ label_table = <<>>
    /\ code = <<>>
    /\ includes = <<>>
    /\ current_label = None
    /\ pc = "encoder"
    /\ status = 0
    /\ exc = ""
    /\ stdout = <<>>
    /\ entry = 0
    /\ final_label_table = <<>>
    /\ resolved_labels = {}
    /\ loop_code = <<>>
    /\ outfile = NoFile
    /\ \E t \in Texts(MaxOperandLen) \cup OtherOperands :
          enc = [EncIdle EXCEPT !.line = t]

EncodeCall ==
    /\ pc = "encoder" /\ ~enc.called
    /\ \E m \in Primitives \cup Pseudos :
          enc' = [instruction |-> m, line |-> enc.line, called |-> TRUE,
                  result |-> Encode(m, enc.line)]
    /\ UNCHANGED <<args, lines, lineno, current_pointer, label_table, code,
                   includes, current_label, pc, status, exc, stdout, entry,
                   final_label_table, resolved_labels, loop_code, outfile>>

EncNext == EncodeCall

SpecEnc == EncInit /\ [][EncNext]_vars

-----------------------------------------------------------------------------
(* What the properties below read off a state.                             *)

\* the module was written
Emitted == outfile.exists

\* the serialized width of the segments an instruction line appends: the
\* width its encoder returns, nothing when the line ends the run
LineWidth(line) ==
    IF HasEncoder(Instruction(line))
       /\ Encode(Instruction(line), Operand(line)).kind = "list"
    THEN SumLen(Encode(Instruction(line), Operand(line)).segs)
    ELSE 0

\* the label declarations of a line stream in textual order, each with the
\* number of code bytes that precede it; an instruction line that no label
\* precedes declares main
RECURSIVE Declarations(_, _, _)
Declarations(ls, labelled, ptr) ==
    IF ls = <<>> THEN <<>>
    ELSE LET line == Strip(Head(ls))
         IN  IF IsBlank(line) \/ IsComment(line) \/ IsDirective(line)
             THEN Declarations(Tail(ls), labelled, ptr)
             ELSE IF IsLabel(line)
             THEN <<[name |-> SubSeq(line, 1, Len(line) - 1), addr |-> ptr]>>
                  \o Declarations(Tail(ls), TRUE, ptr)
             ELSE (IF labelled THEN <<>> ELSE <<[name |-> main, addr |-> ptr]>>)
                  \o Declarations(Tail(ls), TRUE, ptr + LineWidth(line))

\* the declarations of the lines scanned so far
Declared == Declarations(SubSeq(lines, 1, lineno), FALSE, 0)

\* the number of code bytes the instruction lines of a line stream produce
RECURSIVE ScannedWidth(_)
ScannedWidth(ls) ==
    IF ls = <<>> THEN 0
    ELSE (IF IsInstruction(Strip(Head(ls))) THEN LineWidth(Strip(Head(ls))) ELSE 0)
         + ScannedWidth(Tail(ls))

LastDeclaration(name) ==
    CHOOSE k \in 1..Len(Declared) :
        /\ Declared[k].name = name
        /\ \A j \in (k + 1)..Len(Declared) : Declared[j].name # name

\* the address of the last declaration of a name
LastDeclaredAddr(name) == Declared[LastDeclaration(name)].addr

\* the sequence id the declaration order gives a name: the number of distinct
\* names declared before its last declaration
DeclaredId(name) ==
    Cardinality({Declared[j].name : j \in 1..(LastDeclaration(name) - 1)})

\* the names declared more than once
Redeclared ==
    {Declared[k].name : k \in {i \in 1..Len(Declared) :
                                  \E j \in 1..(i - 1) :
                                      Declared[j].name = Declared[i].name}}

\* the byte offset in the code section of segment n of c
OffsetOf(c, n) == SumLen(SubSeq(c, 1, n - 1))

\* the bytes of the written file from offset off (0-based), n of them
FileBytes(off, n) == SubSeq(outfile.data, off + 1, off + n)

\* the k-th record (1-based) of the serialized label table after a count of
\* the width given
TableRecord(k, countWidth) ==
    SubSeq(final_label_table, countWidth + 6 * (k - 1) + 1, countWidth + 6 * k)

Count(kind) == Cardinality({i \in 1..Len(stdout) : stdout[i].kind = kind})

-----------------------------------------------------------------------------
(* Properties.                                                             *)

PseudoWidth(m) == IF m = <<"j", "m", "p", "r">> THEN 20 ELSE 8

\* C2: a pseudo-instruction line (jmpl, jmpr, ret) scanned under a current
\* label appends segments of total width 8, 20, 8 to code and advances
\* current_pointer by that width.
C2_PseudoWidths ==
    [][(AtLine /\ IsInstruction(Line) /\ current_label # None
            /\ Instruction(Line) \in Pseudos)
        => LET w == PseudoWidth(Instruction(Line))
           IN  /\ Len(code') > Len(code)
               /\ SubSeq(code', 1, Len(code)) = code
               /\ SumLen(SubSeq(code', Len(code) + 1, Len(code'))) = w
               /\ current_pointer' = current_pointer + w]_vars

\* C3: every primitive encoder either raises or returns segments of total
\* width 4, a 2-byte opcode first; nop, hlt and jmpa leave the operand field
\* zero, spop without operand text encodes the count 1.
C3_PrimitiveWidth ==
    (enc.called /\ enc.instruction \in Primitives) =>
        /\ enc.result.kind \in {"list", "raise"}
        /\ enc.result.kind = "list" =>
              LET segs == enc.result.segs
              IN  /\ SumLen(segs) = 4
                  /\ ~segs[1].ph /\ Len(segs[1].bytes) \in {2, 4}
                  /\ Len(segs[1].bytes) = 2 => Len(segs) = 2
                  /\ enc.instruction \in {<<"n", "o", "p">>, <<"h", "l", "t">>,
                                          <<"j", "m", "p", "a">>}
                        => SubSeq(JoinBytes(segs), 3, 4) = <<0, 0>>
                  /\ (enc.instruction = <<"s", "p", "o", "p">> /\ enc.line = <<>>)
                        => SubSeq(JoinBytes(segs), 3, 4) = <<0, 1>>

\* spop was encoded without operand text
C3_Witness ==
    /\ enc.called /\ enc.instruction = <<"s", "p", "o", "p">> /\ enc.line = <<>>
    /\ enc.result.kind = "list"

C5_Redefinition ==
    Emitted =>
        \A name \in Redeclared :
            /\ Cardinality({i \in 1..Len(label_table) :
                               label_table[i].name = name}) = 1
            /\ Lookup(label_table, name).addr = LastDeclaredAddr(name)
            /\ Len(outfile.data) - 16 - Len(final_label_table)
                   = ScannedWidth(lines)
            /\ \A n \in 1..Len(code) :
                  (loop_code[n].ph /\ loop_code[n].label_name = name) =>
                      \A k \in 1..Len(label_table) :
                          SubSeq(TableRecord(k, CountWidth), 1, 2) = code[n].bytes
                              => SubSeq(TableRecord(k, CountWidth), 3, 6)
                                     = BigEndian(LastDeclaredAddr(name), 4)

\* the include line at hand names a file whose #ID is already recorded
GuardHit ==
    /\ AtLine /\ IsDirective(Line) /\ HasProcessor(Processor(Line))
    /\ Len(ShlexSplit(Line)) >= 2 /\ ShlexSplit(Line)[2] \in Paths
    /\ LET file == FileLines(ShlexSplit(Line)[2])
       IN  /\ file # <<>>
           /\ StartsWith(file[1], <<"#", "I", "D">>)
           /\ \E i \in 1..Len(includes) :
                 includes[i] = JoinSp(Tail(SplitSp(file[1])))

\* C6: including again a file whose #ID is recorded changes nothing but the
\* scan position and the notices: the line stream, the label table, the code,
\* the pointer, the current label and the guard list are as if the line were
\* not there, and no identifier is ever recorded twice.
C6_IdempotentInclude ==
    [][/\ GuardHit =>
             /\ UNCHANGED <<lines, label_table, code, current_pointer,
                            current_label, includes, outfile>>
             /\ lineno' = lineno + 1
             /\ pc' = "scan" /\ status' = status /\ exc' = exc
       /\ \A i, j \in 1..Len(includes') :
             includes'[i] = includes'[j] => i = j]_vars

\* a module was written after a guarded file was included and an inclusion
\* of it was skipped
C6_Witness ==
    /\ Emitted /\ includes # <<>>
    /\ Count("not re-including file") >= 2

\* C7: when the scan ends with the entry point absent from the label table
\* the run ends with status 1 and no file; a file is written only with the
\* entry point in the table.
C7_MissingEntry ==
    [][/\ (pc = "scan" /\ lineno >= Len(lines)
               /\ args.entry_point \notin Keys(label_table))
          => (pc' = "exit" /\ status' # 0 /\ ~outfile'.exists)
       /\ (pc = "exit" /\ status # 0) => ~outfile.exists
       /\ outfile'.exists => args.entry_point \in Keys(label_table')]_vars

\* the run failed on the entry point after main had been synthesized
C7_Witness ==
    /\ pc = "exit" /\ status = 1 /\ ~Emitted
    /\ Count("error: could not find entry point label") = 1
    /\ Count("warning: no label specified, assuming main") = 1
    /\ main \in Keys(label_table)

\* C8: when fix_jumps meets a placeholder whose label is not in the label
\* table the run ends there with a failure status and no file; a file is
\* written only when every placeholder named a label of the table.
C8_UnresolvedFatal ==
    [][/\ (pc = "fixup"
               /\ \E n \in 1..Len(code) :
                     code[n].ph /\ code[n].label_name \notin Keys(label_table))
          => (pc' = "exit" /\ status' # 0 /\ ~outfile'.exists)
       /\ outfile'.exists =>
             \A n \in 1..Len(loop_code') :
                 loop_code'[n].ph
                     => loop_code'[n].label_name \in Keys(label_table')]_vars

\* fix_jumps failed on a placeholder after resolving an earlier one
C8_Witness ==
    /\ pc = "exit" /\ exc = "KeyError" /\ ~Emitted
    /\ resolved_labels # {}

\* C9: with automatic main on, the first instruction line reached with no
\* label declared records main with id 0 and address 0 and makes it the
\* current label, whatever the encoding of the line does; the current label
\* is never unset again and the warning is printed at most once.
C9_AutomaticMain ==
    [][/\ (AtLine /\ IsInstruction(Line) /\ current_label = None
               /\ ~args.no_automatic_main)
          => /\ label_table' = <<[name |-> main, id |-> 0, addr |-> 0]>>
             /\ current_label' = main
             /\ Len(stdout') > Len(stdout)
       /\ current_label # None => current_label' # None
       /\ Cardinality({i \in 1..Len(stdout') :
              stdout'[i].kind = "warning: no label specified, assuming main"})
             <= 1]_vars

\* main was synthesized, another label was declared later and the module
\* was written
C9_Witness ==
    /\ Emitted
    /\ Count("warning: no label specified, assuming main") = 1
    /\ Len(label_table) >= 2
    /\ label_table[1] = [name |-> main, id |-> 0, addr |-> 0]

\* C10: the four bytes at file offset 6 of an emitted module are the address
\* the label table holds for the entry point, which is the number of code
\* bytes before its last declaration.
C10_EntryField ==
    Emitted =>
        /\ FileBytes(6, 4)
               = BigEndian(Lookup(label_table, args.entry_point).addr, 4)
        /\ Lookup(label_table, args.entry_point).addr
               = LastDeclaredAddr(args.entry_point)

\* a module was written whose entry label was declared twice, last at a
\* non-zero address
C10_Witness ==
    /\ Emitted
    /\ args.entry_point \in Redeclared
    /\ Lookup(label_table, args.entry_point).addr > 0

-----------------------------------------------------------------------------
(* Properties of the expansion of jmpr, the sequence ids and the pointer.  *)

\* the serialized width of a segment: a byte string by its length, a
\* placeholder by 2
SegWidth(x) == IF x.ph THEN 2 ELSE Len(x.bytes)

\* the serialized width of a list of segments
RECURSIVE Width(_)
Width(segs) == IF segs = <<>> THEN 0 ELSE SegWidth(Head(segs)) + Width(Tail(segs))

\* the line at hand is an instruction line that will be encoded
AtEncodedLine ==
    /\ AtLine /\ IsInstruction(Line)
    /\ ~(current_label = None /\ args.no_automatic_main)
    /\ HasEncoder(Instruction(Line))

\* the segments a step appended to code
Appended == SubSeq(code', Len(code) + 1, Len(code'))

\* the 16-bit value of a 2-byte segment
Operand16(x) == x.bytes[1] * 256 + x.bytes[2]

\* C11: a jmpr line scanned at address a appends rgr PC, add <literal>,
\* rgw R7, llbl, jmpa; the literal is the width of the four units that
\* follow rgr PC, so that the address after rgr PC (a + 4) plus the literal
\* is a + 20, the pointer after the whole expansion.
C11_JmprReturn ==
    [][(AtEncodedLine /\ Instruction(Line) = <<"j", "m", "p", "r">>)
        => /\ Len(Appended) = 10
           /\ Appended[1] = Bytes(<<0, 17>>) /\ Appended[2] = Bytes(<<0, 10>>)
           /\ Appended[3] = Bytes(<<0, 48>>)
           /\ Appended[5] = Bytes(<<0, 16>>) /\ Appended[6] = Bytes(<<0, 7>>)
           /\ Operand16(Appended[4]) = Width(SubSeq(Appended, 3, 10))
           /\ current_pointer + 4 + Operand16(Appended[4]) = current_pointer + 20
           /\ current_pointer + 4 + Operand16(Appended[4]) = current_pointer']_vars

\* a jmpr expansion stands in the code at an address other than 0
C11_Witness ==
    \E n \in 1..Len(code) :
        /\ n + 9 <= Len(code)
        /\ code[n] = Bytes(<<0, 17>>) /\ code[n + 1] = Bytes(<<0, 10>>)
        /\ code[n + 2] = Bytes(<<0, 48>>)
        /\ Width(SubSeq(code, 1, n - 1)) > 0

\* C12: the entry at 0-based position k of the label table has sequence
\* id k, so no two entries share an id.
C12_PositionalIds ==
    \A k \in 1..Len(label_table) : label_table[k].id = k - 1

\* C13: the pointer is the serialized width of the code, byte strings by
\* length and placeholders by 2, and no step lowers it.
C13_PointerIsWidth ==
    [][/\ current_pointer = Width(code)
       /\ current_pointer' = Width(code')
       /\ current_pointer' >= current_pointer]_vars

\* the scan goes on with a placeholder in the code and the pointer past it
C13_Witness ==
    /\ pc = "scan" /\ lineno < Len(lines)
    /\ \E n \in 1..Len(code) : code[n].ph /\ n < Len(code)
    /\ current_pointer >= 12

-----------------------------------------------------------------------------
(* What a label line, the fixup pass and a fatal line leave alone.         *)

\* the line at hand declares a label
AtLabelLine == AtLine /\ ~IsComment(Line) /\ ~IsDirective(Line) /\ IsLabel(Line)

\* C14: a label line leaves the pointer, the code and the include guards
\* as they are; it makes its name the current label and changes no table
\* entry but that name's, whose address becomes the width of the code so far.
C14_LabelFrame ==
    [][AtLabelLine
        => LET name == SubSeq(Line, 1, Len(Line) - 1)
           IN  /\ UNCHANGED <<current_pointer, code, includes>>
               /\ current_label' = name
               /\ Keys(label_table') = Keys(label_table) \cup {name}
               /\ \A other \in Keys(label_table) \ {name} :
                     Lookup(label_table', other) = Lookup(label_table, other)
               /\ Lookup(label_table', name).addr = Width(code)]_vars

\* the line just scanned declared a label after code and an include guard
\* were recorded, next to another label's entry
C14_Witness ==
    /\ pc = "scan" /\ lineno > 0 /\ lineno <= Len(lines)
    /\ IsLabel(Strip(lines[lineno])) /\ ~IsComment(Strip(lines[lineno]))
    /\ current_label \in Keys(label_table)
    /\ Lookup(label_table, current_label).addr = current_pointer
    /\ current_pointer > 0 /\ Len(includes) > 0 /\ Len(label_table) > 1

\* C15: fix_jumps keeps the number of segments, every concrete segment, the
\* label table and the pointer; a placeholder it handles becomes a 2-byte
\* string at the same index, and when it finishes none is left; the code
\* section of the file written afterwards is as long as the pointer says.
C15_FixupFrame ==
    [][/\ pc = "fixup"
          => /\ Len(code') = Len(code)
             /\ \A n \in 1..Len(code) :
                   IF code[n].ph
                   THEN \/ code'[n] = code[n] /\ pc' # "emit"
                        \/ ~code'[n].ph /\ Len(code'[n].bytes) = 2
                   ELSE code'[n] = code[n]
             /\ UNCHANGED <<label_table, current_pointer>>
       /\ pc = "emit"
          => /\ outfile'.exists
             /\ Len(outfile'.data) - 16 - Len(final_label_table)
                  = current_pointer]_vars

\* a module is written whose code held a placeholder between concrete
\* segments
C15_Witness ==
    /\ Emitted
    /\ \E n \in 1..Len(loop_code) :
          /\ loop_code[n].ph /\ ~code[n].ph
          /\ n > 2 /\ n < Len(loop_code)

\* the line at hand names a directive that has no processor
UnknownDirective ==
    AtLine /\ ~IsComment(Line) /\ IsDirective(Line) /\ ~HasProcessor(Processor(Line))

\* the line at hand is an instruction with no label, automatic main disabled
MissingLabel ==
    AtLine /\ IsInstruction(Line) /\ current_label = None /\ args.no_automatic_main

\* the line at hand is an instruction whose mnemonic has no encoder
UnknownMnemonic ==
    AtLine /\ IsInstruction(Line) /\ ~MissingLabel
    /\ ~HasEncoder(Instruction(Line))

FatalLine == UnknownDirective \/ MissingLabel \/ UnknownMnemonic

\* the step ends the run with a non-zero status, no segment, no advance of
\* the pointer and no file
Aborts ==
    /\ pc' = "exit" /\ status' # 0
    /\ UNCHANGED <<code, current_pointer, lines, includes>>
    /\ ~outfile'.exists

\* C16 as stated: a fatal line aborts at once, appends nothing, does not
\* advance the pointer and adds no label table entry; nothing runs after it.
C16_FatalAddsNothing ==
    [][/\ FatalLine => Aborts /\ UNCHANGED label_table
       /\ pc = "exit" => UNCHANGED vars]_vars

\* C16: a fatal line aborts at once, appends nothing and does not advance
\* the pointer; it leaves the label table alone, except that an unknown
\* mnemonic met with no label and automatic main enabled has recorded main
\* (id 0, address 0) before it is found unknown; nothing runs after it.
C16_FatalAborts ==
    [][/\ FatalLine
          => /\ Aborts
             /\ label_table' =
                   IF UnknownMnemonic /\ current_label = None
                   THEN <<[name |-> main, id |-> 0, addr |-> 0]>>
                   ELSE label_table
       /\ pc = "exit" => UNCHANGED vars]_vars

\* the run ended on an unknown mnemonic with main recorded for it
C16_Witness ==
    /\ pc = "exit" /\ status = 1
    /\ Count("error: unknown instruction") = 1
    /\ Count("warning: no label specified, assuming main") = 1
    /\ label_table = <<[name |-> main, id |-> 0, addr |-> 0]>>
    /\ code = <<>> /\ ~outfile.exists /\ lineno < Len(lines)

-----------------------------------------------------------------------------
(* Inclusion and the unused-label warnings.                                *)

\* the include line at hand names a file that exists
AtIncludeLine ==
    /\ AtLine /\ ~IsComment(Line) /\ IsDirective(Line)
    /\ HasProcessor(Processor(Line))
    /\ Len(ShlexSplit(Line)) >= 2 /\ ShlexSplit(Line)[2] \in Paths

\* the lines of a file other than an #ID line at its head
NonHeaderLines(file) ==
    IF file # <<>> /\ StartsWith(file[1], <<"#", "I", "D">>)
    THEN Tail(file)
    ELSE file

\* C17: an include that the guard does not skip puts every line of the file
\* other than an #ID header, whether or not it has one, right after the
\* include line, in order.
C17_SpliceAllLines ==
    [][(AtIncludeLine /\ ~GuardHit)
        => lines' = SubSeq(lines, 1, lineno + 1)
                    \o NonHeaderLines(FileLines(ShlexSplit(Line)[2]))
                    \o SubSeq(lines, lineno + 2, Len(lines))]_vars

\* the names the unused-label warnings printed
Warned ==
    {stdout[i].what : i \in {j \in 1..Len(stdout) :
                                stdout[j].kind = "warning: unused label"}}

\* the names the placeholders of the code held before fix_jumps
Referenced == {loop_code[n].label_name : n \in {m \in 1..Len(loop_code) :
                                                   loop_code[m].ph}}

\* C18: once the module is written, the unused-label warnings name, once
\* each, the labels of the table that are neither the entry point nor named
\* by a resolved placeholder; the run succeeds all the same.
C18_UnusedLabels ==
    Emitted
    => /\ Warned = {name \in Keys(label_table) :
                       name # args.entry_point /\ name \notin Referenced}
       /\ Count("warning: unused label") = Cardinality(Warned)
       /\ status = 0 /\ exc = ""

\* a module is written with one label warned of and another, not the entry
\* point, spared because a placeholder named it
C18_Witness ==
    /\ Emitted /\ Warned # {}
    /\ \E name \in Referenced : name # args.entry_point /\ name \notin Warned

-----------------------------------------------------------------------------
(* Termination.  The compiler is one sequential loop: a step that can be   *)
(* taken is taken, which is weak fairness of Next.                         *)

\* the main files whose termination is checked: each source line followed by
\* the include of the file that includes itself
FairPrograms ==
    {<<l, <<"#", "i", "n", "c", "l", "u", "d", "e", " ", "a">> >> :
        l \in SourceLines}

FairInit == Init /\ lines \in FairPrograms

FairSpec == FairInit /\ [][Next]_vars /\ WF_vars(Next)

\* the identifiers of the files that begin with an #ID line
GuardIds ==
    {JoinSp(Tail(SplitSp(FileLines(p)[1]))) :
        p \in {q \in Paths : /\ FileLines(q) # <<>>
                             /\ StartsWith(FileLines(q)[1], <<"#", "I", "D">>)}}

\* C19: every run ends, at the exit, whether by a written module or by a
\* fatal error: an identifier is recorded at most once, each inclusion of a
\* guarded file records one, so there are no more of them than there are
\* identifiers, even though file a includes itself.  (The one file without
\* an #ID line includes nothing.)
C19_Terminates ==
    /\ [](/\ \A i, j \in 1..Len(includes) : includes[i] = includes[j] => i = j
          /\ \A i \in 1..Len(includes) : includes[i] \in GuardIds
          /\ Count("including file") = Len(includes)
          /\ Count("including file") <= Cardinality(GuardIds))
    /\ <>(pc = "exit")

\* the run has ended after the file that includes itself was spliced once
\* and its inclusion of itself was skipped
C19_Witness ==
    /\ pc = "exit"
    /\ Count("including file") = 1
    /\ Count("not re-including file") >= 1
    /\ \E i \in 1..Len(lines) :
          /\ i > 1 /\ i < lineno
          /\ Strip(lines[i]) = <<"#", "i", "n", "c", "l", "u", "d", "e", " ", "a">>
          /\ Strip(lines[i - 1]) = <<>>

-----------------------------------------------------------------------------
(* Alignment.                                                              *)

\* C20: the pointer is always a multiple of 4, so every address in the
\* label table and the entry address of the header are multiples of 4 that
\* fall on a segment boundary of the code, the start of a unit or its end.
C20_Aligned ==
    /\ current_pointer % 4 = 0
    /\ \A k \in 1..Len(label_table) :
          /\ label_table[k].addr % 4 = 0
          /\ \E n \in 1..(Len(code) + 1) :
                Width(SubSeq(code, 1, n - 1)) = label_table[k].addr
    /\ entry % 4 = 0
    /\ Emitted => /\ FileBytes(6, 4) = BigEndian(entry, 4)
                  /\ FileBytes(6, 4)[4] % 4 = 0

\* a module is written whose entry point lies past the first unit and whose
\* code held a placeholder
C20_Witness ==
    /\ Emitted /\ entry >= 4 /\ Len(label_table) >= 2
    /\ \E n \in 1..Len(loop_code) : loop_code[n].ph

====
